---- MODULE Spec2Model ----
(***************************************************************************)
(* A model of bsky/client.py: the AT session object (post store, timeline  *)
(* synchronizer, post resolver, renderer).  Every coroutine of the class   *)
(* is a task whose steps are cut at its awaits (the network calls); the     *)
(* code between two awaits is one atomic step, as under asyncio.            *)
(***************************************************************************)
EXTENDS Integers, Sequences, FiniteSets, TLC

(***************************************************************************)
(* Bounds of the model.                                                    *)
(***************************************************************************)
NPosts == 2        \* distinct post ids (cid) the remote service can serve
MaxTime == 2       \* distinct instants an indexed_at string can denote
MaxInitPage == 2   \* entries of the bulk page initialize() receives (limit=100)
SyncLimit == 1     \* get_timeline(limit=1, ...) in sync_timeline

\* the frames of the calls that can be in progress together; the operations called
\* one at a time are all called in the first
Tasks == {1, 2}
Sequential == {1}

(***************************************************************************)
(* Python's None, for each type of value that can be None in the code.     *)
(***************************************************************************)
NoTime == 0
NoCursor == "<None>"
NoName == "<None>"
NoAuthor == [did |-> "<None>", handle |-> "<None>", display_name |-> NoName]
NoReason == [py_type |-> "<None>", by |-> NoAuthor]
NoProfile == "<None>"

Cids == 1..NPosts
Times == 1..MaxTime

(***************************************************************************)
(* indexed_at strings: an ISO instant with the zone marker "Z", or a       *)
(* string datetime.fromisoformat rejects.                                  *)
(***************************************************************************)
Malformed == [secs |-> NoTime, zone |-> "?"]
IndexedAts == {[secs |-> s, zone |-> "Z"] : s \in Times} \cup {Malformed}

\* post.indexed_at.replace('Z', '+00:00')
replace_Z(indexed_at) ==
    [indexed_at EXCEPT !.zone = IF @ = "Z" THEN "+00:00" ELSE @]

\* datetime.fromisoformat: the instant, or NoTime when it raises ValueError
\* (Python < 3.11 does not accept the "Z" marker itself).
fromisoformat(s) ==
    IF s.zone = "+00:00" THEN s.secs ELSE NoTime

(***************************************************************************)
(* Posts and feed entries.  A post object is modelled by the attributes    *)
(* the store reads or annotates: cid, indexed_at, _at, _reason.            *)
(***************************************************************************)
Alice == [did |-> "did:plc:alice", handle |-> "alice.bsky.social", display_name |-> "Alice"]
Bob == [did |-> "did:plc:bob", handle |-> "bob.test", display_name |-> NoName]
\* a repost reason carries the reposting author in `by`; a pin reason has no `by`
Repost(author) == [py_type |-> "app.bsky.feed.defs#reasonRepost", by |-> author]
Pin == [py_type |-> "app.bsky.feed.defs#reasonPin", by |-> NoAuthor]
Reasons == {NoReason, Repost(Alice)}

NoPost == [cid |-> 0, indexed_at |-> Malformed, _at |-> NoTime, _reason |-> NoReason]
FeedPosts ==
    {[cid |-> c, indexed_at |-> i, _at |-> NoTime, _reason |-> NoReason] :
        c \in Cids, i \in IndexedAts}
Entries == {[post |-> p, reason |-> r] : p \in FeedPosts, r \in Reasons}
NoEntry == [post |-> NoPost, reason |-> NoReason]

Cursors == {"c1"}

\* the sequences over S of length at most n
RECURSIVE Seqs(_, _)
Seqs(S, n) ==
    IF n = 0 THEN {<<>>}
    ELSE Seqs(S, n - 1) \cup {Append(s, x) : s \in {q \in Seqs(S, n - 1) : Len(q) = n - 1}, x \in S}

VARIABLES
    profile,       \* self.profile
    cursor,        \* self.cursor
    seen_posts,    \* self.seen_posts
    oldest,        \* self.oldest
    posts,         \* self.posts
    initialized,   \* self.initialized
    task           \* the coroutines' frames: position, locals, result

vars == <<profile, cursor, seen_posts, oldest, posts, initialized, task>>
session == <<profile, cursor, initialized>>
store == <<seen_posts, oldest, posts>>

(***************************************************************************)
(* AT.add_post and AT.add_fv as functions of the store: the new store, the *)
(* returned post (NoPost for None) and whether an exception left the call. *)
(***************************************************************************)
Store == [seen_posts |-> seen_posts, oldest |-> oldest, posts |-> posts]

\* seeded fault: the comparison of lines 58-59 turned around
watermark_newest(old, at) == IF old = NoTime \/ at > old THEN at ELSE old

\* lines 58-59: the watermark after a post with timestamp `at`
watermark(old, at) == IF old = NoTime \/ at < old THEN at ELSE old

\* seeded fault: the watermark is left as it was
admit_keep_oldest(st, post) ==
    LET at == fromisoformat(replace_Z(post.indexed_at)) IN
    IF at = NoTime
    THEN [st |-> st, ret |-> NoPost, raised |-> TRUE]
    ELSE LET p == [post EXCEPT !._at = at] IN
         [st |-> [seen_posts |-> st.seen_posts \cup {p.cid},
                  oldest |-> st.oldest,
                  posts |-> Append(st.posts, p)],
          ret |-> p,
          raised |-> FALSE]

\* lines 57-62: admit a post whose id is not in the seen-set
admit(st, post) ==
    LET at == fromisoformat(replace_Z(post.indexed_at)) IN
    IF at = NoTime
    THEN [st |-> st, ret |-> NoPost, raised |-> TRUE]
    ELSE LET p == [post EXCEPT !._at = at] IN
         [st |-> [seen_posts |-> st.seen_posts \cup {p.cid},
                  oldest |-> watermark(st.oldest, at),
                  posts |-> Append(st.posts, p)],
          ret |-> p,
          raised |-> FALSE]

\* seeded fault: add_post without the test of lines 55-56
add_post_no_dedup(st, post) == admit(st, post)

\* seeded fault: for an id already seen add_post returns the post the store holds
add_post_return_seen(st, post) ==
    IF post.cid \in st.seen_posts
    THEN [st |-> st,
          ret |-> st.posts[CHOOSE i \in DOMAIN st.posts : st.posts[i].cid = post.cid],
          raised |-> FALSE]
    ELSE admit(st, post)

add_post(st, post) ==
    IF post.cid \in st.seen_posts
    THEN [st |-> st, ret |-> NoPost, raised |-> FALSE]
    ELSE admit(st, post)

\* post._reason = fv.reason on the post object add_post appended last
attach_reason(st, reason) ==
    [st EXCEPT !.posts[Len(st.posts)]._reason = reason]

\* seeded fault: the reason is attached to the newest stored post whether or not
\* the entry was admitted
add_fv_attach_always(st, fv) ==
    LET r == add_post(st, fv.post) IN
    IF r.raised \/ fv.reason = NoReason \/ r.st.posts = <<>> THEN r
    ELSE [r EXCEPT !.st = attach_reason(r.st, fv.reason)]

\* seeded fault: for an id already seen the stored post is returned
add_fv_return_seen(st, fv) ==
    LET r == add_post(st, fv.post) IN
    IF r.raised THEN r
    ELSE IF r.ret = NoPost
         THEN [r EXCEPT !.ret = st.posts[CHOOSE i \in DOMAIN st.posts :
                                            st.posts[i].cid = fv.post.cid]]
         ELSE IF fv.reason # NoReason
              THEN [st |-> attach_reason(r.st, fv.reason),
                    ret |-> [r.ret EXCEPT !._reason = fv.reason],
                    raised |-> FALSE]
              ELSE r

add_fv(st, fv) ==
    LET r == add_post(st, fv.post) IN
    IF r.raised THEN r
    ELSE IF r.ret # NoPost /\ fv.reason # NoReason
         THEN [st |-> attach_reason(r.st, fv.reason),
               ret |-> [r.ret EXCEPT !._reason = fv.reason],
               raised |-> FALSE]
         ELSE r

(***************************************************************************)
(* Text.  A string is the sequence of its characters; a rendered line is a *)
(* sequence of pieces (characters and the literal parts of the f-strings)  *)
(* whose concatenation is the line.                                        *)
(***************************************************************************)
\* the marks that open a rendered line; the four pictographs lie outside the
\* characters a TLA+ string can hold and are written by their code points
MarkReply == "↩ "
MarkRepost == "↻ "
MarkInContext == "↪ "
MarkLink == "U+1F517 "
MarkImage == "U+1F4F7 "
MarkQuote == "U+1F4AC "
MarkVideo == "U+1F3A5 "

LF == "\n"
CR == "\r"
SP == " "
IsSpace(c) == c \in {SP, LF, CR, "\t"}

RECURSIVE lstrip(_)
lstrip(s) == IF s # <<>> /\ IsSpace(Head(s)) THEN lstrip(Tail(s)) ELSE s

RECURSIVE rstrip(_)
rstrip(s) ==
    IF s # <<>> /\ IsSpace(s[Len(s)]) THEN rstrip(SubSeq(s, 1, Len(s) - 1)) ELSE s

\* str.strip()
strip(s) == rstrip(lstrip(s))

\* re.split(r'\r\n|\r|\n', s): the pieces between the separators, empty ones kept;
\* cur is the piece being read
RECURSIVE re_split(_, _)
re_split(s, cur) ==
    IF s = <<>> THEN <<cur>>
    ELSE IF Len(s) >= 2 /\ s[1] = CR /\ s[2] = LF
         THEN <<cur>> \o re_split(SubSeq(s, 3, Len(s)), <<>>)
    ELSE IF s[1] = CR \/ s[1] = LF
         THEN <<cur>> \o re_split(Tail(s), <<>>)
    ELSE re_split(Tail(s), Append(cur, s[1]))

\* [line for line in lines if line.strip()]
RECURSIVE non_blank(_)
non_blank(lines) ==
    IF lines = <<>> THEN <<>>
    ELSE IF strip(Head(lines)) # <<>>
         THEN <<Head(lines)>> \o non_blank(Tail(lines))
         ELSE non_blank(Tail(lines))

\* seeded fault: every kept line trimmed
format_record_trimmed(record) ==
    IF record.text = <<>> THEN <<>>
    ELSE LET kept == non_blank(re_split(strip(record.text), <<>>)) IN
         [i \in 1..Len(kept) |-> strip(kept[i])]

\* AT.format_record; record.text is <<>> for both None and ""
format_record(record) ==
    IF record.text = <<>> THEN <<>>
    ELSE non_blank(re_split(strip(record.text), <<>>))

\* `link in line`: link is a substring of line
Contains(line, link) ==
    \E i \in 0..(Len(line) - Len(link)) : SubSeq(line, i + 1, i + Len(link)) = link

\* f" | {line}" for each line
indent(lines) == [i \in 1..Len(lines) |-> <<" | ">> \o lines[i]]

\* str(x) inside an f-string, for an attribute that may be None
Str(x) == IF x = NoName THEN "None" ELSE x

\* f"{mark}{author.display_name} (@{author.handle}):"
header(mark, author) == <<mark, Str(author.display_name), " (@", author.handle, "):">>

RECURSIVE Orderings(_)
Orderings(S) ==
    IF S = {} THEN {<<>>}
    ELSE UNION {{<<x>> \o o : o \in Orderings(S \ {x})} : x \in S}

(***************************************************************************)
(* Embeds, by py_type.  NoEmbed is None.                                    *)
(***************************************************************************)
NoEmbed == [py_type |-> "<None>"]
ImagesView(images) == [py_type |-> "app.bsky.embed.images#view", images |-> images]
ExternalView(uri) == [py_type |-> "app.bsky.embed.external#view", external |-> [uri |-> uri]]
RecordView(record) == [py_type |-> "app.bsky.embed.record#view", record |-> record]
VideoView(alt, cid) == [py_type |-> "app.bsky.embed.video#view", alt |-> alt, cid |-> cid]

AltCut == 47     \* alt_text[:47]
AltMax == 50     \* len(alt_text) > 50

\* x.alt.replace('\n', ' ')
replace_LF(s) == [i \in 1..Len(s) |-> IF s[i] = LF THEN SP ELSE s[i]]

\* f"{x.alt.replace('\n',' ').strip()} " if getattr(x, 'alt', None) else ""
alt_text(alt) == IF alt = <<>> THEN <<>> ELSE Append(strip(replace_LF(alt)), SP)

\* alt_text[:47] + "..." if len(alt_text) > 50 else alt_text
truncate(alt) == IF Len(alt) > AltMax THEN SubSeq(alt, 1, AltCut) \o <<"...">> ELSE alt

\* x.fullsize or x.thumb
image_url(x) == IF x.fullsize # "" THEN x.fullsize ELSE x.thumb

\* re.search(r'did:plc:[^/]+', uri); a uri is the sequence of its "/"-separated
\* segments, and the did segments are the ones in DidSegments
DidSegments == {"did:plc:alice", "did:plc:bob"}
RECURSIVE did_match(_)
did_match(uri) ==
    IF uri = <<>> THEN "<None>"
    ELSE IF Head(uri) \in DidSegments THEN Head(uri) ELSE did_match(Tail(uri))

\* AT.format_embed
RECURSIVE format_embed(_, _)
format_embed(e, uri) ==
    IF e.py_type = "<None>" THEN <<>>
    ELSE IF e.py_type = "app.bsky.embed.images#view"
    THEN [i \in 1..Len(e.images) |->
            <<MarkImage>> \o truncate(alt_text(e.images[i].alt)) \o <<image_url(e.images[i]), " ">>]
    ELSE IF e.py_type = "app.bsky.embed.record#view"
    THEN IF e.record.has_value
         THEN <<header(MarkQuote, e.record.author)>>
              \o indent(format_record(e.record.value)
                        \o format_embed(e.record.value.embed, e.record.uri))
         ELSE <<>>
    ELSE IF e.py_type = "app.bsky.embed.video#view"
    THEN IF did_match(uri) # "<None>" /\ e.cid # ""
         THEN <<<<MarkVideo>> \o alt_text(e.alt)
                \o <<"https://atproto-browser.vercel.app/blob/", did_match(uri), "/", e.cid>>>>
         ELSE <<>>
    ELSE <<>>

(***************************************************************************)
(* AT.format_links: the set `links`, and the list it returns for one       *)
(* iteration order of that set.                                            *)
(***************************************************************************)
facet_links(facets) ==
    {facets[i].features[j].uri :
        <<i, j>> \in {ij \in (DOMAIN facets) \X (1..2) :
            /\ facets[ij[1]].py_type = "app.bsky.richtext.facet"
            /\ ij[2] \in DOMAIN facets[ij[1]].features
            /\ facets[ij[1]].features[ij[2]].py_type = "app.bsky.richtext.facet#link"}}

embed_links(e) ==
    IF e.py_type = "app.bsky.embed.external#view" THEN {e.external.uri} ELSE {}

links_of(post) == facet_links(post.record.facets) \cup embed_links(post.embed)

\* the lists format_links can return: one per iteration order of the set
format_links(post, lines) ==
    LET emitted == {l \in links_of(post) : ~\E i \in DOMAIN lines : Contains(lines[i], l)}
    IN {[i \in DOMAIN o |-> <<MarkLink>> \o o[i]] : o \in Orderings(emitted)}

(***************************************************************************)
(* AT.sync_post on the answer of get_posts([uri]).                          *)
(***************************************************************************)
NoParent == [cid |-> 0]

\* seeded fault: the last post of the answer instead of the first
sync_post_last(response) ==
    IF response.kind = "raise" THEN NoParent
    ELSE IF response.kind = "none" \/ response.posts = <<>> THEN NoParent
    ELSE response.posts[Len(response.posts)]

sync_post(response) ==
    IF response.kind = "raise" THEN NoParent
    ELSE IF response.kind = "none" \/ response.posts = <<>> THEN NoParent
    ELSE response.posts[1]

\* the attributes of a resolved post that the store reads or annotates
store_view(p) ==
    [cid |-> p.cid, indexed_at |-> p.indexed_at, _at |-> NoTime, _reason |-> NoReason]

(***************************************************************************)
(* AT.format_post.                                                          *)
(***************************************************************************)
\* seeded fault: a reference that carries an id is in context, seen or not
reply_in_context_any(st, post) ==
    /\ post.record.reply.present
    /\ post.record.reply.parent.has_cid

\* lines 115-119: the reply is in context
reply_in_context(st, post) ==
    /\ post.record.reply.present
    /\ post.record.reply.parent.has_cid
    /\ post.record.reply.parent.cid \in st.seen_posts

\* lines 122-126, for the parent sync_post returned
parent_block(parent) ==
    IF parent = NoParent THEN <<>>
    ELSE <<header(MarkReply, parent.author)>> \o indent(format_record(parent.record))

\* post has a _reason with a `by`
is_repost(post) == post._reason # NoReason /\ post._reason.by # NoAuthor

\* seeded fault: the header names the author the repost reason carries
repost_block_by(post, formatted_lines) ==
    <<header(MarkRepost, post._reason.by)>> \o indent(formatted_lines)

\* lines 135-137
repost_block(post, formatted_lines) ==
    <<header(MarkRepost, post.author)>> \o indent(formatted_lines)

\* lines 128-143, after the reply handling left `lines`; links is the list
\* format_links returned.  IndexError when lines[0] does not exist.
format_body(post, lines, reply_ok, links) ==
    LET formatted_lines ==
            format_record(post.record) \o links \o format_embed(post.embed, post.uri)
    IN IF is_repost(post)
       THEN [lines |-> lines \o repost_block(post, formatted_lines),
             formatted_lines |-> formatted_lines, raised |-> FALSE]
       ELSE LET all == lines \o formatted_lines IN
            IF reply_ok
            THEN IF all = <<>>
                 THEN [lines |-> all, formatted_lines |-> formatted_lines, raised |-> TRUE]
                 ELSE [lines |-> <<<<MarkInContext>> \o all[1]>> \o Tail(all),
                       formatted_lines |-> formatted_lines, raised |-> FALSE]
            ELSE [lines |-> all, formatted_lines |-> formatted_lines, raised |-> FALSE]

(***************************************************************************)
(* The posts handed to format_post and the answers of get_posts.            *)
(***************************************************************************)
NoReply == [present |-> FALSE, parent |-> [has_cid |-> FALSE, cid |-> 0, uri |-> <<>>]]
ParentUri == <<"at:", "", "did:plc:alice", "app.bsky.feed.post", "p">>
Replies ==
    {NoReply, [present |-> TRUE, parent |-> [has_cid |-> FALSE, cid |-> 0, uri |-> ParentUri]]}
    \cup {[present |-> TRUE, parent |-> [has_cid |-> TRUE, cid |-> c, uri |-> ParentUri]] :
            c \in Cids}

LinkFacet(uri) ==
    [py_type |-> "app.bsky.richtext.facet",
     features |-> <<[py_type |-> "app.bsky.richtext.facet#mention", uri |-> <<>>],
                    [py_type |-> "app.bsky.richtext.facet#link", uri |-> uri]>>]
Quoted ==
    [has_value |-> TRUE, author |-> Alice,
     uri |-> <<"at:", "", "did:plc:alice", "app.bsky.feed.post", "q">>,
     value |-> [text |-> <<"q">>, embed |-> VideoView(<<"v", LF>>, "bafyvideo")]]
Body(text, facets, embed) == [text |-> text, facets |-> facets, embed |-> embed]
Bodies ==
    {Body(<<>>, <<>>, NoEmbed),
     Body(<<SP, LF>>, <<>>, RecordView([has_value |-> FALSE])),
     Body(<<"a", SP, LF, CR, LF, SP, "b">>, <<>>, NoEmbed),
     Body(<<"a">>, <<LinkFacet(<<"a">>)>>, ExternalView(<<"u">>)),
     Body(<<>>, <<LinkFacet(<<"v">>)>>, ExternalView(<<"u">>)),
     Body(<<"a">>, <<>>, ImagesView(<<[alt |-> <<"x", LF, "y">>, fullsize |-> "full", thumb |-> "thumb"],
                                      [alt |-> <<>>, fullsize |-> "", thumb |-> "thumb"]>>)),
     Body(<<>>, <<>>, RecordView(Quoted))}
PlainBodies == {Body(<<"a">>, <<>>, NoEmbed)}

RenderPost(reason, reply, body) ==
    [uri |-> <<"at:", "", "did:plc:bob", "app.bsky.feed.post", "r">>,
     author |-> Bob,
     _reason |-> reason,
     record |-> [text |-> body.text, reply |-> reply, facets |-> body.facets],
     embed |-> body.embed]
NoRenderPost == RenderPost(NoReason, NoReply, Body(<<>>, <<>>, NoEmbed))
RenderPosts ==
    {RenderPost(r, y, b) : r \in {NoReason, Repost(Alice), Pin}, y \in Replies, b \in Bodies}
PlainRenderPosts == {RenderPost(NoReason, y, b) : y \in Replies, b \in PlainBodies}

ParentPost(cid, indexed_at, author) ==
    [cid |-> cid, indexed_at |-> indexed_at, author |-> author,
     record |-> [text |-> <<"p", LF, "r">>]]
ParentPosts == {ParentPost(c, i, Alice) : c \in Cids, i \in IndexedAts}
Decoy == ParentPost(1, [secs |-> 1, zone |-> "Z"], Bob)
Raise == [kind |-> "raise", posts |-> <<>>]
PlainResponses ==
    {Raise, [kind |-> "none", posts |-> <<>>]}
    \cup {[kind |-> "posts", posts |-> q] : q \in Seqs(ParentPosts, 1)}
Responses ==
    PlainResponses \cup {[kind |-> "posts", posts |-> <<q, Decoy>>] : q \in ParentPosts}

(***************************************************************************)
(* The frame of a coroutine (or of a plain call): where it is suspended,   *)
(* its arguments and locals, and what it returned or raised.               *)
(***************************************************************************)
IdleTask ==
    [pc |-> "idle",          \* "idle", the await the coroutine is suspended at, or "done"
     op |-> "none",          \* the method called last
     status |-> "none",      \* "running", "returned" or "raised"
     fv |-> NoEntry,         \* add_fv / add_post argument
     ret_post |-> NoPost,    \* post returned (NoPost for None)
     ret_list |-> <<>>,      \* list returned
     cursor |-> NoCursor,    \* sync_timeline: cursor
     new_posts |-> <<>>,     \* sync_timeline: new_posts
     timeline |-> <<>>,      \* initialize: self.timeline, which only its own loop reads
     gets |-> 0,             \* get_timeline requests issued by the call
     served |-> <<>>,        \* the pages get_timeline answered the call with
     post |-> NoRenderPost,  \* format_post: post
     reply_ok |-> FALSE,     \* format_post: reply_ok
     parent |-> NoParent,    \* format_post: parent; sync_post: the value returned
     lines |-> <<>>,         \* format_post: lines, the list returned
     formatted_lines |-> <<>>,  \* format_post: formatted_lines
     requested |-> <<>>,     \* the uris the call asked get_posts for
     response |-> Raise,     \* the answer of get_posts the call received last
     arg |-> <<>>,           \* the string argument of a call that takes one
     ret_str |-> <<>>]       \* string returned

Init ==
    /\ profile = NoProfile
    /\ cursor = NoCursor
    /\ seen_posts = {}
    /\ oldest = NoTime
    /\ posts = <<>>
    /\ initialized = FALSE
    /\ task = [t \in Tasks |-> IdleTask]

AllIdle == \A t \in Tasks : task[t].pc = "idle"

\* the caller has taken what the call returned or raised; the frame is gone
release(t) ==
    /\ task[t].pc = "done"
    /\ task' = [task EXCEPT ![t] = IdleTask]
    /\ UNCHANGED <<session, store>>

SetStore(st) ==
    /\ seen_posts' = st.seen_posts
    /\ oldest' = st.oldest
    /\ posts' = st.posts

(***************************************************************************)
(* Direct calls of the store's two operations.                              *)
(***************************************************************************)
call_add_post(t, post) ==
    /\ AllIdle
    /\ LET r == add_post(Store, post) IN
       /\ SetStore(r.st)
       /\ task' = [task EXCEPT ![t] =
                     [IdleTask EXCEPT !.pc = "done", !.op = "add_post",
                                      !.status = IF r.raised THEN "raised" ELSE "returned",
                                      !.fv = [post |-> post, reason |-> NoReason],
                                      !.ret_post = r.ret]]
    /\ UNCHANGED session

call_add_fv(t, fv) ==
    /\ AllIdle
    /\ LET r == add_fv(Store, fv) IN
       /\ SetStore(r.st)
       /\ task' = [task EXCEPT ![t] =
                     [IdleTask EXCEPT !.pc = "done", !.op = "add_fv",
                                      !.status = IF r.raised THEN "raised" ELSE "returned",
                                      !.fv = fv,
                                      !.ret_post = r.ret]]
    /\ UNCHANGED session

(***************************************************************************)
(* AT.initialize: await login, await get_timeline(limit=100), admit all.   *)
(***************************************************************************)
\* seeded fault: an entry that raises is skipped and the loop goes on
RECURSIVE add_all_swallow(_, _, _)
add_all_swallow(st, feed, i) ==
    IF i > Len(feed) THEN [st |-> st, raised |-> FALSE]
    ELSE add_all_swallow(add_fv(st, feed[i]).st, feed, i + 1)

\* for fv in self.timeline: self.add_fv(fv)
RECURSIVE add_all(_, _, _)
add_all(st, feed, i) ==
    IF i > Len(feed) THEN [st |-> st, raised |-> FALSE]
    ELSE LET r == add_fv(st, feed[i]) IN
         IF r.raised THEN [st |-> r.st, raised |-> TRUE]
         ELSE add_all(r.st, feed, i + 1)

\* initialize is the cold-start load: it is called on a session that is not ready
\* and whose store is still empty
initialize_call(t) ==
    /\ AllIdle
    /\ ~initialized
    /\ seen_posts = {}
    /\ task' = [task EXCEPT ![t] =
                  [IdleTask EXCEPT !.pc = "login", !.op = "initialize", !.status = "running"]]
    /\ UNCHANGED <<session, store>>

initialize_login(t) ==
    /\ task[t].pc = "login"
    /\ \/ /\ profile' = "profile"
          /\ task' = [task EXCEPT ![t].pc = "get_timeline"]
       \/ /\ profile' = profile
          /\ task' = [task EXCEPT ![t].pc = "done", ![t].status = "raised"]
    /\ UNCHANGED <<cursor, initialized, store>>

initialize_get_timeline(t) ==
    /\ task[t].pc = "get_timeline"
    /\ \/ /\ task' = [task EXCEPT ![t].pc = "done", ![t].status = "raised",
                                  ![t].gets = @ + 1]
          /\ UNCHANGED <<session, store>>
       \/ \E feed \in Seqs(Entries, MaxInitPage) :
             LET r == add_all(Store, feed, 1) IN
             /\ SetStore(r.st)
             /\ initialized' = IF r.raised THEN initialized ELSE TRUE
             /\ task' = [task EXCEPT ![t].pc = "done",
                                     ![t].status = IF r.raised THEN "raised" ELSE "returned",
                                     ![t].timeline = feed,
                                     ![t].gets = @ + 1]
             /\ UNCHANGED <<profile, cursor>>

(***************************************************************************)
(* AT.sync_timeline: one step per await of get_timeline(limit=1, cursor).  *)
(***************************************************************************)
Pages ==
    {[feed |-> f, cursor |-> c] : f \in Seqs(Entries, SyncLimit), c \in Cursors \cup {NoCursor}}

\* seeded fault: the comparison of line 76 turned around
is_new_flipped(st, post) == post # NoPost /\ post._at < st.oldest

\* seeded fault: line 76 with <= for <
is_new_or_equal(st, post) == post # NoPost /\ st.oldest <= post._at

\* line 76: `post and self.oldest < post._at`
is_new(st, post) == post # NoPost /\ st.oldest < post._at

\* seeded fault: an entry that is not new leaves the cursor as it is
RECURSIVE sync_feed_no_stop(_, _, _, _, _)
sync_feed_no_stop(st, page, i, cur, new) ==
    IF i > Len(page.feed) THEN [st |-> st, cursor |-> cur, new_posts |-> new, raised |-> FALSE]
    ELSE LET r == add_fv(st, page.feed[i]) IN
         IF r.raised THEN [st |-> r.st, cursor |-> cur, new_posts |-> new, raised |-> TRUE]
         ELSE IF is_new(r.st, r.ret)
              THEN sync_feed_no_stop(r.st, page, i + 1, page.cursor, Append(new, r.ret))
              ELSE sync_feed_no_stop(r.st, page, i + 1, page.cursor, new)

\* the body of `for fv in timeline.feed` from entry i on; cur and new are the
\* locals cursor and new_posts
RECURSIVE sync_feed(_, _, _, _, _)
sync_feed(st, page, i, cur, new) ==
    IF i > Len(page.feed) THEN [st |-> st, cursor |-> cur, new_posts |-> new, raised |-> FALSE]
    ELSE LET r == add_fv(st, page.feed[i]) IN
         IF r.raised THEN [st |-> r.st, cursor |-> cur, new_posts |-> new, raised |-> TRUE]
         ELSE IF is_new(r.st, r.ret)
              THEN sync_feed(r.st, page, i + 1, page.cursor, Append(new, r.ret))
              ELSE sync_feed(r.st, page, i + 1, NoCursor, new)

\* the call up to its first await, in a frame that is free
sync_timeline_start(t) ==
    /\ task[t].pc = "idle"
    /\ task' = [task EXCEPT ![t] =
                  [IdleTask EXCEPT !.pc = "sync", !.op = "sync_timeline", !.status = "running"]]
    /\ UNCHANGED <<session, store>>

\* sync_timeline called while no other call is in progress
sync_timeline_call(t) == AllIdle /\ sync_timeline_start(t)

\* what one served page records: the page, the cursor it was asked with, and the
\* store it met
Served(page, req, failed, raised) ==
    [page |-> page, req |-> req, failed |-> failed, raised |-> raised,
     seen_before |-> seen_posts, oldest_before |-> oldest]

\* seeded fault: the handler returns what the cycle had collected
sync_timeline_except_partial(frame) ==
    [frame EXCEPT !.pc = "done", !.status = "returned", !.ret_list = frame.new_posts]

\* except Exception: logging.exception(...); return []
sync_timeline_except(frame) ==
    [frame EXCEPT !.pc = "done", !.status = "returned", !.ret_list = <<>>]

\* seeded fault: `if not cursor: break` left out
sync_timeline_no_break(frame) == frame

\* return new_posts
sync_timeline_return(frame) ==
    [frame EXCEPT !.pc = "done", !.status = "returned", !.ret_list = frame.new_posts]

\* get_timeline raises: except Exception: return []
sync_timeline_fail(t) ==
    /\ task[t].pc = "sync"
    /\ task' = [task EXCEPT ![t] = sync_timeline_except(
                  [task[t] EXCEPT !.gets = @ + 1,
                                  !.served = Append(@, Served([feed |-> <<>>, cursor |-> NoCursor],
                                                              task[t].cursor, TRUE, FALSE))])]
    /\ UNCHANGED <<session, store>>

\* get_timeline answers with page: lines 71-80, then the break or the next await
sync_timeline_answer(t, page) ==
    /\ task[t].pc = "sync"
    /\ LET r == sync_feed(Store, page, 1, NoCursor, task[t].new_posts)
           frame == [task[t] EXCEPT
                       !.cursor = r.cursor,
                       !.new_posts = r.new_posts,
                       !.gets = @ + 1,
                       !.served = Append(@, Served(page, task[t].cursor, FALSE, r.raised))]
       IN
       /\ SetStore(r.st)
       /\ task' = [task EXCEPT ![t] =
                    IF r.raised THEN sync_timeline_except(frame)
                    ELSE IF r.cursor = NoCursor    \* if not cursor: break
                         THEN sync_timeline_return(frame)
                         ELSE frame]
       /\ UNCHANGED session

sync_timeline_page(t) ==
    \/ sync_timeline_fail(t)
    \/ \E page \in Pages : sync_timeline_answer(t, page)

(***************************************************************************)
(* AT.sync_post called directly: await get_posts([uri]).                    *)
(***************************************************************************)
sync_post_call(t, uri) ==
    /\ AllIdle
    /\ task' = [task EXCEPT ![t] =
                  [IdleTask EXCEPT !.pc = "get_posts", !.op = "sync_post",
                                   !.status = "running", !.requested = <<uri>>]]
    /\ UNCHANGED <<session, store>>

sync_post_return(t, response) ==
    /\ task[t].pc = "get_posts"
    /\ task[t].op = "sync_post"
    /\ task' = [task EXCEPT ![t].pc = "done", ![t].status = "returned",
                            ![t].parent = sync_post(response),
                            ![t].response = response]
    /\ UNCHANGED <<session, store>>

(***************************************************************************)
(* AT.format_post: suspended at most once, at await sync_post(parent uri).  *)
(***************************************************************************)
\* lines 128-143 and the return (or the exception) of the call
format_post_finish(t, post, lines, reply_ok, parent, requested, response) ==
    \E links \in format_links(post, format_record(post.record)) :
        LET r == format_body(post, lines, reply_ok, links) IN
        task' = [task EXCEPT ![t] =
                   [IdleTask EXCEPT !.pc = "done", !.op = "format_post",
                                    !.status = IF r.raised THEN "raised" ELSE "returned",
                                    !.post = post,
                                    !.reply_ok = reply_ok,
                                    !.parent = parent,
                                    !.lines = IF r.raised THEN <<>> ELSE r.lines,
                                    !.formatted_lines = r.formatted_lines,
                                    !.requested = requested,
                                    !.response = response]]

\* the call up to its await of sync_post, or to its end when it has none
format_post_start(t, post) ==
    /\ task[t].pc = "idle"
    /\ IF post.record.reply.present /\ ~reply_in_context(Store, post)
       THEN task' = [task EXCEPT ![t] =
                       [IdleTask EXCEPT !.pc = "get_posts", !.op = "format_post",
                                        !.status = "running", !.post = post,
                                        !.requested = <<post.record.reply.parent.uri>>]]
       ELSE format_post_finish(t, post, <<>>, reply_in_context(Store, post), NoParent, <<>>,
                               Raise)
    /\ UNCHANGED <<session, store>>

\* format_post called while no other call is in progress
format_post_call(t, post) == AllIdle /\ format_post_start(t, post)

format_post_resume(t, response) ==
    /\ task[t].pc = "get_posts"
    /\ task[t].op = "format_post"
    /\ LET parent == sync_post(response)
           a == IF parent = NoParent THEN [st |-> Store, ret |-> NoPost, raised |-> FALSE]
                ELSE add_post(Store, store_view(parent))
       IN
       /\ SetStore(a.st)
       /\ IF a.raised
          THEN task' = [task EXCEPT ![t].pc = "done", ![t].status = "raised",
                                    ![t].parent = parent, ![t].response = response]
          ELSE format_post_finish(t, task[t].post, parent_block(parent), FALSE, parent,
                                  task[t].requested, response)
    /\ UNCHANGED session

Next ==
    \E t \in Sequential :
        \/ \E p \in FeedPosts : call_add_post(t, p)
        \/ \E fv \in Entries : call_add_fv(t, fv)
        \/ initialize_call(t)
        \/ initialize_login(t)
        \/ initialize_get_timeline(t)
        \/ sync_timeline_call(t)
        \/ sync_timeline_page(t)
        \/ sync_post_call(t, ParentUri)
        \/ \E response \in PlainResponses : sync_post_return(t, response)
        \/ \E post \in PlainRenderPosts : format_post_call(t, post)
        \/ \E response \in PlainResponses : format_post_resume(t, response)
        \/ release(t)

\* every operation of the session, called one at a time
Spec == Init /\ [][Next]_vars

NextRender ==
    \E t \in Sequential :
        \/ \E p \in FeedPosts : call_add_post(t, p)
        \/ sync_post_call(t, ParentUri)
        \/ \E response \in Responses : sync_post_return(t, response)
        \/ \E post \in RenderPosts : format_post_call(t, post)
        \/ \E response \in Responses : format_post_resume(t, response)
        \/ release(t)

\* the renderer and the resolver on every kind of post, over stores filled by add_post
SpecRender == Init /\ [][NextRender]_vars

(***************************************************************************)
(* Properties.                                                              *)
(***************************************************************************)
Last(q) == q[Len(q)]
Occurrences(c) == Cardinality({i \in DOMAIN posts : posts[i].cid = c})
\* the derived timestamp of a post: the instant its indexed_at denotes
Derived(post) == fromisoformat(replace_Z(post.indexed_at))
SyncReturned(t) == task[t].op = "sync_timeline" /\ task[t].pc = "done"
\* the entry of a served one-entry page
EntryOf(s) == s.page.feed[1]

\* C1: in every reachable state an id is in the seen-set if and only if a post
\* with that id occurs exactly once in the ordered sequence of admitted posts.
C1_SeenIffOnce ==
    /\ \A c \in Cids : (c \in seen_posts) <=> (Occurrences(c) = 1)
    /\ \A i \in DOMAIN posts : posts[i].cid \in seen_posts
    /\ seen_posts \subseteq Cids

\* C1 witness: both ids are admitted and the call made last offered one of them again.
C1_Witness ==
    \E t \in Tasks :
        /\ task[t].op = "add_fv"
        /\ task[t].fv.post.cid \in seen_posts
        /\ task[t].ret_post = NoPost
        /\ task[t].status = "returned"
        /\ Len(posts) = NPosts

\* C2: the watermark is the minimum derived timestamp over the posts of the
\* ordered sequence, and it is unset exactly when the sequence is empty.
C2_Watermark ==
    /\ (oldest = NoTime) <=> (posts = <<>>)
    /\ \A i \in DOMAIN posts : posts[i]._at = Derived(posts[i]) /\ oldest <= posts[i]._at
    /\ posts # <<>> => \E i \in DOMAIN posts : oldest = Derived(posts[i])

\* C2 witness: render's parent backfill admitted a post older than everything
\* admitted before it, and the watermark went down to it.
C2_Witness ==
    \E t \in Tasks :
        /\ task[t].op = "format_post"
        /\ task[t].status = "returned"
        /\ task[t].parent # NoParent
        /\ Len(posts) >= 2
        /\ Last(posts).cid = task[t].parent.cid
        /\ oldest = Last(posts)._at
        /\ posts[1]._at > oldest

\* C3: admitting an id that is already seen changes nothing: add_post and add_fv
\* return None and leave the sequence, the seen-set and the watermark as they were,
\* so the stored post keeps the reason it had; the same holds for a duplicate entry
\* that a page of sync_timeline delivers.
C3_DuplicateIsNoOp ==
    [][\A t \in Tasks :
        /\ (/\ task'[t].op \in {"add_post", "add_fv"}
            /\ task'[t].fv.post.cid \in seen_posts)
           => /\ task'[t].ret_post = NoPost
              /\ task'[t].status = "returned"
              /\ UNCHANGED store
        /\ (/\ task[t].pc = "sync"
            /\ task'[t].gets = task[t].gets + 1
            /\ Len(Last(task'[t].served).page.feed) = 1
            /\ EntryOf(Last(task'[t].served)).post.cid \in seen_posts)
           => UNCHANGED store
      ]_vars

\* C3 witness: a repost entry was offered for an id admitted without a reason; None
\* came back and the stored post still has no reason.
C3_Witness ==
    \E t \in Tasks :
        /\ task[t].op = "add_fv"
        /\ task[t].fv.reason # NoReason
        /\ task[t].ret_post = NoPost
        /\ task[t].status = "returned"
        /\ \E i \in DOMAIN posts :
              posts[i].cid = task[t].fv.post.cid /\ posts[i]._reason = NoReason

(***************************************************************************)
(* The feed of a sync_timeline call is the sequence of pages it is served. *)
(* A page repeats an id when its entry's id was in the seen-set when the   *)
(* page arrived.  A served page that has a next cursor has a successor in  *)
(* the feed, and that successor may repeat an id.                           *)
(***************************************************************************)
Repeats(s) == EntryOf(s).post.cid \in s.seen_before
\* no get_timeline failed and no entry failed to parse
Undisturbed(t) == \A i \in DOMAIN task[t].served :
                      ~task[t].served[i].failed /\ ~task[t].served[i].raised
\* one entry per page, and every page that repeats no id has a successor
OneEntryPerPage(t) ==
    \A i \in DOMAIN task[t].served :
        /\ Len(task[t].served[i].page.feed) = 1
        /\ ~Repeats(task[t].served[i]) => task[t].served[i].page.cursor # NoCursor
\* the store held a post when the call started
StartedOnAdmitted(t) == task[t].served[1].oldest_before # NoTime
\* the entry of page s is strictly newer than the watermark the page met
NewerThanWatermark(s) ==
    s.oldest_before # NoTime /\ Derived(EntryOf(s).post) > s.oldest_before
\* the call fetched up to the first page that repeats an id, and no further, and
\* returned one post for each page before it
FetchedToFirstRepeat(t) ==
    /\ task[t].gets = Len(task[t].served)
    /\ Repeats(Last(task[t].served))
    /\ \A i \in 1..(Len(task[t].served) - 1) : ~Repeats(task[t].served[i])
    /\ Len(task[t].ret_list) = task[t].gets - 1

\* C4 as claimed: on a feed of one-entry pages whose Nth page is the first to repeat
\* an admitted id, sync_timeline (called on a store that holds a post) fetches
\* exactly N pages and returns N-1 posts.
C4_AsClaimed ==
    \A t \in Tasks :
        (SyncReturned(t) /\ Undisturbed(t) /\ OneEntryPerPage(t) /\ StartedOnAdmitted(t))
            => FetchedToFirstRepeat(t)

\* C4 amended: the same, for feeds in which every entry before the Nth page is
\* strictly newer than the watermark the store has when the entry arrives.
C4_NoveltyHaltsPaging ==
    \A t \in Tasks :
        (/\ SyncReturned(t) /\ Undisturbed(t) /\ OneEntryPerPage(t)
         /\ \A i \in DOMAIN task[t].served :
               ~Repeats(task[t].served[i]) => NewerThanWatermark(task[t].served[i]))
            => FetchedToFirstRepeat(t)

\* C4 witness: the second page was the first to repeat an id; two fetches, one post.
C4_Witness ==
    \E t \in Tasks :
        /\ SyncReturned(t) /\ Undisturbed(t) /\ OneEntryPerPage(t)
        /\ task[t].gets = 2
        /\ ~Repeats(task[t].served[1])
        /\ NewerThanWatermark(task[t].served[1])
        /\ Repeats(task[t].served[2])
        /\ Len(task[t].ret_list) = 1

\* C5: when the watermark is set, an entry of a page of sync_timeline is appended to
\* new_posts, and the cursor set to the page's cursor, exactly when its id was not
\* seen and its derived timestamp is strictly newer than the watermark held before
\* the entry was admitted; otherwise the cursor is None and the call returns.
C5_NoveltyTest ==
    [][\A t \in Tasks :
        (/\ task[t].pc = "sync"
         /\ task'[t].gets = task[t].gets + 1
         /\ oldest # NoTime
         /\ Len(Last(task'[t].served).page.feed) = 1
         /\ ~Last(task'[t].served).raised)
        => LET page == Last(task'[t].served).page
               fv == page.feed[1]
               new == fv.post.cid \notin seen_posts /\ Derived(fv.post) > oldest
           IN /\ new => /\ task'[t].new_posts = Append(task[t].new_posts, Last(posts'))
                        /\ Last(posts').cid = fv.post.cid
                        /\ task'[t].cursor = page.cursor
                        /\ (page.cursor # NoCursor) => task'[t].pc = "sync"
              /\ ~new => /\ task'[t].new_posts = task[t].new_posts
                         /\ task'[t].cursor = NoCursor
                         /\ task'[t].pc = "done"
                         /\ task'[t].ret_list = task[t].new_posts
      ]_vars

\* C5 witness: a call recorded the entry of its first page as new and, on its second
\* page, met an entry that was not new.
C5_Witness ==
    \E t \in Tasks :
        /\ SyncReturned(t) /\ Undisturbed(t)
        /\ Len(task[t].served) = 2
        /\ task[t].served[1].oldest_before # NoTime
        /\ Len(task[t].ret_list) = 1
        /\ task[t].ret_list[1].cid = EntryOf(task[t].served[1]).post.cid
        /\ task[t].cursor = NoCursor

\* C6: when get_timeline fails in some iteration of sync_timeline, the call returns
\* an empty list and does not raise, the failing step changes neither the store nor
\* the session, every post the earlier pages of the cycle admitted is still in the
\* sequence and the seen-set and bounded below by the watermark, and sync_timeline
\* can be called again whenever no call is in progress.
C6_FailedFetch ==
    /\ [](\A t \in Tasks :
            /\ (task[t].op = "sync_timeline" /\ task[t].served # <<>>
                    /\ Last(task[t].served).failed)
               => /\ task[t].pc = "done"
                  /\ task[t].status = "returned"
                  /\ task[t].ret_list = <<>>
                  /\ task[t].gets = Len(task[t].served)
                  /\ \A i \in 1..(Len(task[t].served) - 1) :
                        \A k \in DOMAIN task[t].served[i].page.feed :
                            LET p == task[t].served[i].page.feed[k].post IN
                            /\ p.cid \in seen_posts
                            /\ Occurrences(p.cid) = 1
                            /\ p.cid \notin task[t].served[i].seen_before
                               => /\ oldest <= Derived(p)
                                  /\ \E j \in DOMAIN posts :
                                        posts[j].cid = p.cid /\ posts[j]._at = Derived(p)
            /\ AllIdle => ENABLED sync_timeline_call(t))
    /\ [][\A t \in Tasks :
            (task'[t].op = "sync_timeline" /\ task'[t].gets = task[t].gets + 1
                /\ Last(task'[t].served).failed)
            => UNCHANGED <<session, store>>]_vars

\* C6 witness: the first page of a cycle brought a new post, the second fetch failed;
\* the post is in the store and the call returned the empty list.
C6_Witness ==
    \E t \in Tasks :
        /\ task[t].op = "sync_timeline"
        /\ task[t].status = "returned"
        /\ Len(task[t].served) = 2
        /\ task[t].served[2].failed
        /\ Len(task[t].new_posts) = 1
        /\ task[t].ret_list = <<>>
        /\ task[t].new_posts[1].cid \in seen_posts \ task[t].served[1].seen_before

\* C7: when login fails, initialize raises without having asked for the timeline and
\* leaves the store empty and the session not ready; and the session becomes ready
\* only in a step of initialize that returns with every entry of the page it fetched
\* admitted.
C7_Initialize ==
    [][\A t \in Tasks :
        /\ (task[t].pc = "login" /\ task'[t].pc = "done")
           => /\ task'[t].status = "raised"
              /\ task'[t].gets = 0
              /\ seen_posts' = {} /\ posts' = <<>> /\ oldest' = NoTime
              /\ profile' = profile
              /\ ~initialized'
        /\ (task[t].pc = "login" /\ task'[t].pc = "get_timeline")
           => UNCHANGED <<store, initialized>>
        /\ (task[t].op = "initialize" /\ ~initialized /\ initialized')
           => /\ task[t].pc = "get_timeline"
              /\ task'[t].status = "returned"
              /\ task'[t].gets = 1
              /\ profile' # NoProfile
              /\ \A i \in DOMAIN task'[t].timeline :
                    /\ task'[t].timeline[i].post.cid \in seen_posts'
                    /\ \E j \in DOMAIN posts' :
                          posts'[j].cid = task'[t].timeline[i].post.cid
        /\ (initialized' /\ ~initialized)
           => \E u \in Tasks : task[u].op = "initialize"
      ]_vars

\* C7 witness: login failed; initialize raised before any get_timeline, the store is
\* empty and the session is not ready.
C7_Witness ==
    \E t \in Tasks :
        /\ task[t].op = "initialize"
        /\ task[t].status = "raised"
        /\ task[t].gets = 0
        /\ profile = NoProfile
        /\ posts = <<>> /\ seen_posts = {} /\ oldest = NoTime
        /\ ~initialized

\* what sync_post is to return for an answer of get_posts
FirstPostOrNone(response) ==
    IF response.kind = "posts" /\ Len(response.posts) >= 1
    THEN response.posts[1] ELSE NoParent

\* C8: sync_post never raises; it returns the first post of the answer when there is
\* one and None when there is none or when get_posts raised; called directly it
\* leaves posts, seen_posts, oldest and self.cursor as they were.  Inside format_post
\* the parent is that same value, and a failed resolve does not fail the render.
C8_SyncPost ==
    [][\A t \in Tasks :
        /\ (task[t].pc = "get_posts" /\ task[t].op = "sync_post" /\ task'[t].pc = "done")
           => /\ task'[t].status = "returned"
              /\ task'[t].parent = FirstPostOrNone(task'[t].response)
              /\ UNCHANGED <<store, session>>
        /\ (task[t].pc = "get_posts" /\ task[t].op = "format_post" /\ task'[t].pc = "done")
           => /\ task'[t].parent = FirstPostOrNone(task'[t].response)
              /\ task'[t].parent = NoParent
                 => task'[t].status = "returned" /\ UNCHANGED <<store, session>>
      ]_vars

\* C8 witness: get_posts raised and sync_post returned None.
C8_Witness ==
    \E t \in Tasks :
        /\ task[t].op = "sync_post"
        /\ task[t].pc = "done"
        /\ task[t].response.kind = "raise"
        /\ task[t].status = "returned"
        /\ task[t].parent = NoParent

\* C9: format_post returns a list of lines for a reply whose parent is already in
\* the store, whatever its body; in particular when the body has no line.
C9_InContextReplyRenders ==
    \A t \in Tasks :
        (/\ task[t].op = "format_post"
         /\ task[t].pc = "done"
         /\ task[t].post.record.reply.present
         /\ task[t].requested = <<>>)
        => task[t].status = "returned"

\* the lines of a finished format_post call before its repost header: the parent
\* header and the indented parent text when sync_post returned a parent
ParentLines(t) ==
    IF task[t].parent = NoParent THEN <<>>
    ELSE <<<<MarkReply, Str(task[t].parent.author.display_name), " (@",
             task[t].parent.author.handle, "):">>>>
         \o [i \in 1..Len(format_record(task[t].parent.record)) |->
               <<" | ">> \o format_record(task[t].parent.record)[i]]

\* the lines of a repost, with `author` named in the header
RepostLayout(t, author) ==
    LET k == Len(ParentLines(t))
        body == task[t].formatted_lines
    IN /\ Len(task[t].lines) = k + 1 + Len(body)
       /\ \A i \in 1..k : task[t].lines[i] = ParentLines(t)[i]
       /\ task[t].lines[k + 1] =
            <<MarkRepost, Str(author.display_name), " (@", author.handle, "):">>
       /\ \A j \in 1..Len(body) : task[t].lines[k + 1 + j] = <<" | ">> \o body[j]
       /\ SubSeq(body, 1, Len(format_record(task[t].post.record)))
            = format_record(task[t].post.record)

RenderedRepost(t) ==
    /\ task[t].op = "format_post"
    /\ task[t].status = "returned"
    /\ task[t].post._reason.by # NoAuthor

\* C10 as claimed: the repost header names the reposting author, the `by` of the
\* reason; the body lines follow it indented and the parent lines precede it.
C10_AsClaimed ==
    \A t \in Tasks : RenderedRepost(t) => RepostLayout(t, task[t].post._reason.by)

\* C10 amended: the repost header names the author of the post itself.
C10_RepostHeader ==
    \A t \in Tasks : RenderedRepost(t) => RepostLayout(t, task[t].post.author)

\* C10 witness: a repost by another author of a reply whose parent was resolved, with
\* a body of several lines.
C10_Witness ==
    \E t \in Tasks :
        /\ RenderedRepost(t)
        /\ task[t].post._reason.by # task[t].post.author
        /\ task[t].parent # NoParent
        /\ Len(task[t].formatted_lines) >= 2

\* the step appends the parent that sync_post returned to the store, with its
\* timestamp, and lowers the watermark to it when it is older
ParentAdmitted(parent) ==
    LET at == Derived(parent) IN
    /\ seen_posts' = seen_posts \cup {parent.cid}
    /\ Len(posts') = Len(posts) + 1
    /\ SubSeq(posts', 1, Len(posts)) = posts
    /\ Last(posts').cid = parent.cid
    /\ Last(posts')._at = at
    /\ oldest' = IF oldest = NoTime \/ at < oldest THEN at ELSE oldest

\* C11: format_post of a reply whose reference carries a parent id the seen-set holds
\* asks get_posts for nothing and leaves the store as it was; for any other reply it
\* asks once, for the uri of the parent, and when sync_post returns a post the store
\* changes as add_post of that post changes it (nothing for an id already seen, an
\* append with the watermark lowered otherwise), and when it returns None the store
\* is unchanged.
C11_ReplyResolution ==
    [][\A t \in Tasks :
        /\ (task[t].pc = "idle" /\ task'[t].op = "format_post")
           => LET ref == task'[t].post.record.reply IN
              /\ UNCHANGED store
              /\ IF ref.present /\ ~(ref.parent.has_cid /\ ref.parent.cid \in seen_posts)
                 THEN task'[t].pc = "get_posts" /\ task'[t].requested = <<ref.parent.uri>>
                 ELSE task'[t].pc = "done" /\ task'[t].requested = <<>>
        /\ (task[t].pc = "get_posts" /\ task[t].op = "format_post")
           => /\ task'[t].pc = "done"
              /\ task'[t].requested = task[t].requested
              /\ Len(task'[t].requested) = 1
              /\ IF task'[t].parent = NoParent
                 THEN UNCHANGED store
                 ELSE IF task'[t].parent.cid \in seen_posts
                      THEN UNCHANGED store
                      ELSE IF Derived(task'[t].parent) = NoTime
                           THEN task'[t].status = "raised" /\ UNCHANGED store
                           ELSE ParentAdmitted(task'[t].parent)
      ]_vars

\* C11 witness: a reply whose parent id was not in the seen-set was rendered with one
\* request; the parent sync_post returned is now the newest entry of the store and
\* the watermark.
C11_Witness ==
    \E t \in Tasks :
        /\ task[t].op = "format_post"
        /\ task[t].status = "returned"
        /\ task[t].post.record.reply.parent.has_cid
        /\ task[t].requested = <<ParentUri>>
        /\ task[t].parent # NoParent
        /\ Len(posts) = 2
        /\ Last(posts).cid = task[t].parent.cid
        /\ oldest = Last(posts)._at
        /\ oldest < posts[1]._at

(***************************************************************************)
(* AT.format_record on its own, for every text of a bounded set.            *)
(***************************************************************************)
MaxText == 4       \* characters of a record text
TextChars == {"a", SP, LF, CR}
\* "line1\r\n\r\nline2\r  \r\nline3"
ExampleText ==
    <<"l", "i", "n", "e", "1", CR, LF, CR, LF, "l", "i", "n", "e", "2", CR, SP, SP,
      CR, LF, "l", "i", "n", "e", "3">>
Texts == Seqs(TextChars, MaxText) \cup {ExampleText}

InitFlatten ==
    /\ profile = NoProfile
    /\ cursor = NoCursor
    /\ seen_posts = {}
    /\ oldest = NoTime
    /\ posts = <<>>
    /\ initialized = FALSE
    /\ \E text \in Texts : task = [t \in Tasks |-> [IdleTask EXCEPT !.arg = text]]

format_record_call(t) ==
    /\ task[t].pc = "idle"
    /\ task' = [task EXCEPT ![t].pc = "done", ![t].op = "format_record",
                            ![t].status = "returned",
                            ![t].ret_list = format_record([text |-> task[t].arg])]
    /\ UNCHANGED <<session, store>>

NextFlatten == \E t \in Sequential : format_record_call(t)

\* format_record applied to each text of Texts
SpecFlatten == InitFlatten /\ [][NextFlatten]_vars

FlattenReturned(t) == task[t].op = "format_record" /\ task[t].pc = "done"

\* the pieces of the raw text between line breaks that are not blank, in order
Pieces(text) == non_blank(re_split(text, <<>>))

\* C12 as claimed: the lines are the non-blank pieces of the text, each trimmed.
C12_AsClaimed ==
    \A t \in Tasks :
        FlattenReturned(t) =>
            /\ Len(task[t].ret_list) = Len(Pieces(task[t].arg))
            /\ \A i \in DOMAIN task[t].ret_list :
                  task[t].ret_list[i] = strip(Pieces(task[t].arg)[i])

\* C12 amended: the lines are the non-blank pieces of the text in their order; the
\* first has lost the whitespace before it and the last the whitespace after it, as
\* the text was trimmed as a whole, and every other end of a piece is as it was in the
\* text.  An empty text gives no line.
C12_Flatten ==
    \A t \in Tasks :
        FlattenReturned(t) =>
            LET out == task[t].ret_list
                pieces == Pieces(task[t].arg)
                n == Len(pieces)
            IN /\ Len(out) = n
               /\ \A i \in 1..n :
                     out[i] = IF n = 1 THEN strip(pieces[i])
                              ELSE IF i = 1 THEN lstrip(pieces[i])
                              ELSE IF i = n THEN rstrip(pieces[i])
                              ELSE pieces[i]
               /\ task[t].arg = <<>> => out = <<>>

\* C12 witness: the text "a \na" was flattened to the lines "a " and "a"; the space
\* before the line break is kept.
C12_Witness ==
    \E t \in Tasks :
        /\ FlattenReturned(t)
        /\ task[t].arg = <<"a", SP, LF, "a">>
        /\ task[t].ret_list = <<<<"a", SP>>, <<"a">>>>

(***************************************************************************)
(* AT.format_embed on an image set of one image, for alt texts of every     *)
(* length up to MaxAlt.                                                     *)
(***************************************************************************)
MaxAlt == 60       \* characters of an alt text between its outer whitespace
Digits == <<"0", "1", "2", "3", "4", "5", "6", "7", "8", "9">>
\* n characters, the i-th the last digit of i, with a line break in place of the
\* lf-th (none when lf = 0), between spaces when padded
AltOf(n, lf, padded) ==
    LET core == [i \in 1..n |-> IF i = lf THEN LF ELSE Digits[(i % 10) + 1]]
    IN IF padded THEN <<SP>> \o core \o <<SP, LF>> ELSE core
Alts == {AltOf(n, lf, padded) : n \in 0..MaxAlt, lf \in {0, 3}, padded \in BOOLEAN}

InitAlt ==
    /\ profile = NoProfile
    /\ cursor = NoCursor
    /\ seen_posts = {}
    /\ oldest = NoTime
    /\ posts = <<>>
    /\ initialized = FALSE
    /\ \E alt \in Alts : task = [t \in Tasks |-> [IdleTask EXCEPT !.arg = alt]]

format_embed_call(t) ==
    /\ task[t].pc = "idle"
    /\ task' = [task EXCEPT
                  ![t].pc = "done", ![t].op = "format_embed", ![t].status = "returned",
                  ![t].ret_list =
                      format_embed(ImagesView(<<[alt |-> task[t].arg, fullsize |-> "full",
                                                 thumb |-> "thumb"]>>),
                                   ParentUri)]
    /\ UNCHANGED <<session, store>>

NextAlt == \E t \in Sequential : format_embed_call(t)

\* format_embed applied to an image with each alt text of Alts
SpecAlt == InitAlt /\ [][NextAlt]_vars

\* the alt text with its line breaks turned into spaces, trimmed
Collapsed(alt) == strip(replace_LF(alt))

\* the pieces of an image line between the camera mark and the url
AltShown(line) == SubSeq(line, 2, Len(line) - 2)

\* C13: the line of an image shows the collapsed alt text cut to its first 47
\* characters and "..." exactly when the text is longer than 50 characters, and
\* shows a text of 50 characters or fewer in full.
C13_AltTruncation ==
    \A t \in Tasks :
        (task[t].op = "format_embed" /\ task[t].pc = "done") =>
            LET a == Collapsed(task[t].arg)
                shown == AltShown(task[t].ret_list[1])
            IN /\ Len(task[t].ret_list) = 1
               /\ IF Len(a) > AltMax
                  THEN shown = SubSeq(a, 1, AltCut) \o <<"...">>
                  ELSE Len(shown) >= Len(a) /\ SubSeq(shown, 1, Len(a)) = a

(***************************************************************************)
(* sanitize and Author.__init__.                                            *)
(***************************************************************************)
Upper ==
    {"A", "B", "C", "D", "E", "F", "G", "H", "I", "J", "K", "L", "M", "N", "O", "P", "Q",
     "R", "S", "T", "U", "V", "W", "X", "Y", "Z"}
Lower ==
    {"a", "b", "c", "d", "e", "f", "g", "h", "i", "j", "k", "l", "m", "n", "o", "p", "q",
     "r", "s", "t", "u", "v", "w", "x", "y", "z"}
DigitChars == {"0", "1", "2", "3", "4", "5", "6", "7", "8", "9"}
\* [A-Za-z0-9_]
WordChars == Upper \cup Lower \cup DigitChars \cup {"_"}

BskySocial == <<".", "b", "s", "k", "y", ".", "s", "o", "c", "i", "a", "l">>
NoHandle == <<"_", "n", "o", "h", "a", "n", "d", "l", "e">>
NickMax == 16      \* base[:16]

\* s ends with suffix
EndsWith(s, suffix) ==
    Len(s) >= Len(suffix) /\ SubSeq(s, Len(s) - Len(suffix) + 1, Len(s)) = suffix

\* re.sub(r'\.bsky\.social$', '', field): $ matches at the end and before a final \n
sub_bsky_social(field) ==
    IF EndsWith(field, BskySocial)
    THEN SubSeq(field, 1, Len(field) - Len(BskySocial))
    ELSE IF EndsWith(field, BskySocial \o <<LF>>)
         THEN SubSeq(field, 1, Len(field) - Len(BskySocial) - 1) \o <<LF>>
         ELSE field

\* field.replace(old, new) for one-character strings
replace(s, old, new) == [i \in 1..Len(s) |-> IF s[i] = old THEN new ELSE s[i]]

\* re.sub(r'[^A-Za-z0-9_]', '', field)
RECURSIVE sub_non_word(_)
sub_non_word(s) ==
    IF s = <<>> THEN <<>>
    ELSE IF Head(s) \in WordChars THEN <<Head(s)>> \o sub_non_word(Tail(s))
         ELSE sub_non_word(Tail(s))

\* re.sub(r'_+$', '', base)
RECURSIVE sub_trailing_underscores(_)
sub_trailing_underscores(s) ==
    IF s # <<>> /\ s[Len(s)] = "_"
    THEN sub_trailing_underscores(SubSeq(s, 1, Len(s) - 1))
    ELSE s

\* lines 13-18 on the stripped base
finish_base(stripped) ==
    LET base == IF stripped = <<>> THEN NoHandle ELSE stripped
        prefixed == IF base[1] \in DigitChars THEN <<"_">> \o base ELSE base
    IN SubSeq(prefixed, 1, IF Len(prefixed) < NickMax THEN Len(prefixed) ELSE NickMax)

base_of(field) ==
    sub_trailing_underscores(
        sub_non_word(replace(replace(sub_bsky_social(field), ".", "_"), SP, "_")))

\* seeded fault: the result is cut before the "_" is put in front of a digit
sanitize_cut_first(field) ==
    LET stripped == base_of(field)
        base == IF stripped = <<>> THEN NoHandle ELSE stripped
        cut == SubSeq(base, 1, IF Len(base) < NickMax THEN Len(base) ELSE NickMax)
    IN IF cut[1] \in DigitChars THEN <<"_">> \o cut ELSE cut

sanitize(field) == finish_base(base_of(field))

\* Author.__init__: self.nick = sanitize(display_name or handle); <<>> is both None
\* and the empty string
Author_nick(handle, display_name) ==
    sanitize(IF display_name # <<>> THEN display_name ELSE handle)

MaxField == 3      \* characters of a field drawn from FieldChars
FieldChars == {"A", "z", "1", "_", ".", SP, "!"}
\* `first` followed by n - 1 letters
LongField(first, n) == <<first>> \o [i \in 1..(n - 1) |-> "x"]
\* "Alice.bsky.social" and "1 weird name!!"
AliceHandle == <<"A", "l", "i", "c", "e">> \o BskySocial
WeirdName == <<"1", SP, "w", "e", "i", "r", "d", SP, "n", "a", "m", "e", "!", "!">>
Fields ==
    Seqs(FieldChars, MaxField)
    \cup {f \o BskySocial : f \in Seqs(FieldChars, MaxField)}
    \cup {LongField(first, n) : first \in {"a", "1", "_"}, n \in (14..18) \cup {30}}
    \cup {AliceHandle, WeirdName, <<"a", LF>>, <<"a">> \o BskySocial \o <<LF>>}

InitSanitize ==
    /\ profile = NoProfile
    /\ cursor = NoCursor
    /\ seen_posts = {}
    /\ oldest = NoTime
    /\ posts = <<>>
    /\ initialized = FALSE
    /\ \E field \in Fields : task = [t \in Tasks |-> [IdleTask EXCEPT !.arg = field]]

sanitize_call(t) ==
    /\ task[t].pc = "idle"
    /\ task' = [task EXCEPT ![t].pc = "done", ![t].op = "sanitize",
                            ![t].status = "returned",
                            ![t].ret_str = sanitize(task[t].arg)]
    /\ UNCHANGED <<session, store>>

\* Author(did, handle, display_name) with the field as the display name, or as the
\* handle of an author without a display name
Author_init(t, named) ==
    /\ task[t].pc = "idle"
    /\ task' = [task EXCEPT
                  ![t].pc = "done", ![t].op = "Author", ![t].status = "returned",
                  ![t].ret_str = IF named THEN Author_nick(AliceHandle, task[t].arg)
                                 ELSE Author_nick(task[t].arg, <<>>)]
    /\ UNCHANGED <<session, store>>

NextSanitize ==
    \E t \in Sequential :
        \/ sanitize_call(t)
        \/ \E named \in BOOLEAN : Author_init(t, named)

\* sanitize applied to each field of Fields, directly and by the Author constructor
SpecSanitize == InitSanitize /\ [][NextSanitize]_vars

\* a non-empty token of at most 16 characters of [A-Za-z0-9_] that does not start
\* with a digit
IsNick(r) ==
    /\ r # <<>>
    /\ Len(r) <= 16
    /\ \A i \in DOMAIN r : r[i] \in WordChars
    /\ r[1] \notin DigitChars

\* the field without a final ".bsky.social"
Stem(field) ==
    IF EndsWith(field, BskySocial)
    THEN SubSeq(field, 1, Len(field) - Len(BskySocial)) ELSE field

\* a field that is a token already: word characters only, no digit first, no "_" last
ValidField(field) ==
    /\ field # <<>>
    /\ \A i \in DOMAIN field : field[i] \in WordChars
    /\ field[1] \notin DigitChars
    /\ field[Len(field)] # "_"

\* C14: sanitize returns a non-empty token of at most 16 characters of [A-Za-z0-9_]
\* whose first character is not a digit, and so is the nick of every Author; a field
\* with no letter and no digit outside a final ".bsky.social" gives "_nohandle", and
\* a valid field of more than 16 characters gives its first 16.
C14_Sanitize ==
    \A t \in Tasks :
        /\ (task[t].op \in {"sanitize", "Author"} /\ task[t].pc = "done")
           => IsNick(task[t].ret_str)
        /\ (task[t].op = "sanitize" /\ task[t].pc = "done")
           => LET field == task[t].arg IN
              /\ (\A i \in DOMAIN Stem(field) :
                      Stem(field)[i] \notin Upper \cup Lower \cup DigitChars)
                 => task[t].ret_str = NoHandle
              /\ (ValidField(field) /\ Len(field) > 16)
                 => task[t].ret_str = SubSeq(field, 1, 16)

\* C14 witness: "1 weird name!!" was sanitized to "_1_weird_name".
C14_Witness ==
    \E t \in Tasks :
        /\ task[t].op = "sanitize"
        /\ task[t].pc = "done"
        /\ task[t].arg = WeirdName
        /\ task[t].ret_str = <<"_", "1", "_", "w", "e", "i", "r", "d", "_", "n", "a", "m", "e">>

(***************************************************************************)
(* sync_timeline over stores filled by add_post, with every awaited          *)
(* get_timeline answered (by a page or by an exception).                     *)
(***************************************************************************)
NextSync ==
    \E t \in Sequential :
        \/ \E p \in FeedPosts : call_add_post(t, p)
        \/ sync_timeline_call(t)
        \/ sync_timeline_page(t)
        \/ release(t)

SpecSync ==
    Init /\ [][NextSync]_vars /\ \A t \in Tasks : WF_vars(sync_timeline_page(t))

\* the answer s of a fetch ends the paging: the fetch failed, an entry did not
\* parse, the page is empty or has no next cursor, or its entry is a duplicate or
\* not newer than the watermark after its admission
EndsPaging(s) ==
    \/ s.failed
    \/ s.raised
    \/ s.page.feed = <<>>
    \/ s.page.cursor = NoCursor
    \/ EntryOf(s).post.cid \in s.seen_before
    \/ s.oldest_before = NoTime
    \/ Derived(EntryOf(s).post) <= s.oldest_before

\* C15: a sync_timeline call that was started returns; its first get_timeline is
\* asked with no cursor and every later one with the cursor of the page before it,
\* which is not None; the call is over exactly when the last answer ends the paging,
\* and no fetch follows an answer that ends the paging.
C15_SyncTerminates ==
    /\ [](\A t \in Tasks :
            task[t].op = "sync_timeline" =>
                /\ task[t].gets = Len(task[t].served)
                /\ \A i \in DOMAIN task[t].served :
                      /\ task[t].served[i].req =
                            IF i = 1 THEN NoCursor ELSE task[t].served[i - 1].page.cursor
                      /\ i > 1 => task[t].served[i].req # NoCursor
                      /\ i < Len(task[t].served) => ~EndsPaging(task[t].served[i])
                /\ task[t].served # <<>>
                   => (EndsPaging(Last(task[t].served)) <=> task[t].pc = "done"))
    /\ \A t \in Tasks :
          (task[t].op = "sync_timeline" /\ task[t].pc = "sync")
              ~> (task[t].op = "sync_timeline" /\ task[t].pc = "done")

\* C15 witness: a call that fetched twice, the second time with the cursor of the
\* first page, and returned its one new post when the second page had no next cursor.
C15_Witness ==
    \E t \in Tasks :
        /\ SyncReturned(t)
        /\ Len(task[t].served) = 2
        /\ task[t].served[1].req = NoCursor
        /\ task[t].served[2].req = "c1"
        /\ task[t].served[2].page.cursor = NoCursor
        /\ ~task[t].served[2].failed
        /\ Len(task[t].ret_list) = 1

(***************************************************************************)
(* sync_timeline and format_post as coroutines of one event loop: a call     *)
(* can start in a free frame while another is suspended at its await, and    *)
(* each step is the code of one coroutine from one await to the next.        *)
(***************************************************************************)
\* pages of one well-formed entry that is not a repost
PlainPages ==
    {page \in Pages :
        /\ Len(page.feed) = 1
        /\ page.feed[1].reason = NoReason
        /\ page.feed[1].post.indexed_at # Malformed}

\* replies whose reference carries the id of the parent
ReplyPosts == {post \in PlainRenderPosts : post.record.reply.parent.has_cid}

\* get_posts raises, or answers with one well-formed post
FoundOrRaise ==
    {response \in PlainResponses :
        \/ response.kind = "raise"
        \/ response.posts # <<>> /\ response.posts[1].indexed_at # Malformed}

NextInterleaved ==
    \E t \in Tasks :
        \/ sync_timeline_start(t)
        \/ sync_timeline_fail(t)
        \/ \E page \in PlainPages : sync_timeline_answer(t, page)
        \/ \E post \in ReplyPosts : format_post_start(t, post)
        \/ \E response \in FoundOrRaise : format_post_resume(t, response)
        \/ release(t)

SpecInterleaved == Init /\ [][NextInterleaved]_vars

\* the ids of a sequence of posts
CidsOf(q) == {q[i].cid : i \in DOMAIN q}

\* C16: with sync_timeline and format_post calls interleaved at their awaits, in
\* every state the seen-set is the set of the ids of the sequence and no id is in the
\* sequence twice; the seen-set only grows; a sync_timeline call collects as new only
\* posts that the same step admitted, and returns only posts it collected, so that
\* no id is collected or returned by two calls.
C16_Interleaved ==
    /\ [](/\ seen_posts = CidsOf(posts)
          /\ \A c \in Cids : Occurrences(c) <= 1
          /\ \A t1, t2 \in Tasks :
                (t1 # t2 /\ task[t1].op = "sync_timeline" /\ task[t2].op = "sync_timeline")
                => CidsOf(task[t1].new_posts) \cap CidsOf(task[t2].new_posts) = {}
          /\ \A t \in Tasks :
                task[t].op = "sync_timeline"
                => /\ CidsOf(task[t].ret_list) \subseteq CidsOf(task[t].new_posts)
                   /\ Cardinality(CidsOf(task[t].new_posts)) = Len(task[t].new_posts))
    /\ [][/\ seen_posts \subseteq seen_posts'
          /\ \A t \in Tasks :
                task'[t].op = "sync_timeline"
                => LET collected == CidsOf(task'[t].new_posts)
                                        \ (IF task[t].op = "sync_timeline"
                                           THEN CidsOf(task[t].new_posts) ELSE {})
                   IN /\ collected \cap seen_posts = {}
                      /\ collected \subseteq seen_posts'
      ]_vars

\* C16 witness: a sync_timeline call is suspended at its second get_timeline with
\* the post it admitted collected, while another sync_timeline call has been served
\* that same post, as a duplicate, and has returned the empty list.
C16_Witness ==
    \E t1, t2 \in Tasks :
        /\ t1 # t2
        /\ task[t1].op = "sync_timeline" /\ task[t1].pc = "sync"
        /\ Len(task[t1].new_posts) = 1
        /\ task[t2].op = "sync_timeline" /\ task[t2].pc = "done"
        /\ Len(task[t2].served) = 1
        /\ task[t2].served[1].page.feed # <<>>
        /\ EntryOf(task[t2].served[1]).post.cid = task[t1].new_posts[1].cid
        /\ task[t2].ret_list = <<>>

\* the post of entry e as the store holds it after add_fv admitted it
Stored(e) == [e.post EXCEPT !._at = Derived(e.post), !._reason = e.reason]

\* the entry of answer s had an id the seen-set did not hold
Unseen(s) == s.page.feed # <<>> /\ EntryOf(s).post.cid \notin s.seen_before

\* the entry of answer s was new: unseen, and newer than the watermark it met
Novel(s) ==
    /\ Unseen(s)
    /\ s.oldest_before # NoTime
    /\ Derived(EntryOf(s).post) > s.oldest_before

C18_EmptyStoreSync ==
    \A t \in Tasks :
        (/\ task[t].op = "sync_timeline"
         /\ task[t].served # <<>>
         /\ task[t].served[1].oldest_before = NoTime
         /\ task[t].served[1].seen_before = {}
         /\ task[t].served[1].page.feed # <<>>
         /\ ~task[t].served[1].failed
         /\ ~task[t].served[1].raised)
        => /\ task[t].pc = "done"
           /\ task[t].status = "returned"
           /\ task[t].gets = 1
           /\ Len(task[t].served) = 1
           /\ task[t].ret_list = <<>>
           /\ posts = <<Stored(EntryOf(task[t].served[1]))>>
           /\ seen_posts = {EntryOf(task[t].served[1]).post.cid}
           /\ oldest = Derived(EntryOf(task[t].served[1]).post)

\* C18 witness: initialize loaded a page of no entry; the sync_timeline call after it
\* admitted the entry of a page that carried a cursor, and returned the empty list
\* after its one request.
C18_Witness ==
    \E t \in Tasks :
        /\ initialized
        /\ SyncReturned(t)
        /\ task[t].gets = 1
        /\ task[t].served[1].oldest_before = NoTime
        /\ task[t].served[1].page.feed # <<>>
        /\ task[t].served[1].page.cursor # NoCursor
        /\ Len(posts) = 1
        /\ oldest = posts[1]._at
        /\ task[t].ret_list = <<>>

(***************************************************************************)
(* sync_timeline cycles one after the other, each in a free frame, over     *)
(* pages of one well-formed entry and failing fetches; the frame of a       *)
(* finished cycle may be kept while later cycles run.                       *)
(***************************************************************************)
\* no call is suspended
Quiet == \A t \in Tasks : task[t].pc \in {"idle", "done"}

NextCycles ==
    \E t \in Tasks :
        \/ Quiet /\ sync_timeline_start(t)
        \/ sync_timeline_fail(t)
        \/ \E page \in PlainPages : sync_timeline_answer(t, page)
        \/ release(t)

SpecCycles == Init /\ [][NextCycles]_vars

\* the sync_timeline call of frame t ended in its except clause
Aborted(t) == SyncReturned(t) /\ Last(task[t].served).failed

\* C19: the posts a sync_timeline call had admitted and collected when a fetch
\* failed are in the store and not in the list the call returned, which is empty;
\* no other sync_timeline call collects or returns one of them, and a call that is
\* served one of them is served it as an id already seen, collects nothing for it
\* and ends with that answer.
C19_LostToAbort ==
    \A t1 \in Tasks :
        Aborted(t1) =>
            /\ task[t1].ret_list = <<>>
            /\ CidsOf(task[t1].new_posts) \subseteq seen_posts
            /\ \A t2 \in Tasks \ {t1} :
                  task[t2].op = "sync_timeline" =>
                      /\ CidsOf(task[t1].new_posts) \cap CidsOf(task[t2].new_posts) = {}
                      /\ CidsOf(task[t1].new_posts) \cap CidsOf(task[t2].ret_list) = {}
                      /\ \A i \in DOMAIN task[t2].served :
                            (/\ task[t2].served[i].page.feed # <<>>
                             /\ EntryOf(task[t2].served[i]).post.cid
                                    \in CidsOf(task[t1].new_posts))
                            => /\ EntryOf(task[t2].served[i]).post.cid
                                      \in task[t2].served[i].seen_before
                               /\ i = Len(task[t2].served)
                               /\ task[t2].pc = "done"

\* C19 witness: a call admitted and collected a post and was answered by a failure
\* at its second fetch; a later call was served that post on a page with a cursor,
\* made no second request and returned the empty list.
C19_Witness ==
    \E t1, t2 \in Tasks :
        /\ t1 # t2
        /\ Aborted(t1)
        /\ Len(task[t1].served) = 2
        /\ task[t1].served[2].failed
        /\ Len(task[t1].new_posts) = 1
        /\ SyncReturned(t2)
        /\ Len(task[t2].served) = 1
        /\ ~task[t2].served[1].failed
        /\ task[t2].served[1].page.feed # <<>>
        /\ EntryOf(task[t2].served[1]).post.cid = task[t1].new_posts[1].cid
        /\ task[t2].served[1].page.cursor # NoCursor
        /\ task[t2].ret_list = <<>>

(***************************************************************************)
(* format_post calls one after the other on replies that are not reposts:   *)
(* the first frame holds an earlier call while the second runs later ones.   *)
(***************************************************************************)
\* replies without repost reason whose reference carries the id of the parent, with
\* a body of text only
TwiceBodies == {b \in Bodies \cup PlainBodies : b.facets = <<>> /\ b.embed = NoEmbed}
TwicePosts ==
    {RenderPost(NoReason, y, b) : y \in {r \in Replies : r.parent.has_cid}, b \in TwiceBodies}

\* frame t is the one the next call takes: the first, or the second while the first
\* holds a finished call
NextFrame(t) ==
    /\ Quiet
    /\ task[t].pc = "idle"
    /\ \A u \in Tasks : u < t => task[u].pc = "done"

\* the frame of the earlier call is given up only once no later call is held
release_in_order(t) ==
    /\ \A u \in Tasks : u > t => task[u].pc = "idle"
    /\ release(t)

NextRenderTwice ==
    \E t \in Tasks :
        \/ \E post \in TwicePosts : NextFrame(t) /\ format_post_start(t, post)
        \/ \E response \in PlainResponses : format_post_resume(t, response)
        \/ release_in_order(t)

SpecRenderTwice == Init /\ [][NextRenderTwice]_vars

\* frames t1 and t2 hold two finished format_post calls on the same post, the one
\* of t1 made first; the first asked for the parent, whose id was not in the store,
\* and sync_post returned the post of that id, which add_post admitted
RenderedTwice(t1, t2) ==
    /\ t1 < t2
    /\ task[t1].op = "format_post" /\ task[t1].pc = "done"
    /\ task[t2].op = "format_post" /\ task[t2].pc = "done"
    /\ task[t1].post = task[t2].post
    /\ task[t1].requested # <<>>
    /\ task[t1].parent # NoParent
    /\ task[t1].parent.cid = task[t1].post.record.reply.parent.cid
    /\ task[t1].status = "returned"

\* C20: of two format_post calls on the same reply that is not a repost, the first
\* of which found the parent missing from the store and resolved it, the first made
\* one get_posts request, admitted the parent and returned lines that start with
\* the parent header and the indented parent text; the second made no request and
\* returned the body lines with the in-context mark before the first, and no
\* parent header.
C20_RenderTwice ==
    \A t1, t2 \in Tasks :
        RenderedTwice(t1, t2) =>
            LET block == ParentLines(t1)
                body == format_record(task[t2].post.record)
            IN /\ Len(task[t1].requested) = 1
               /\ task[t1].parent.cid \in seen_posts
               /\ Len(task[t1].lines) = Len(block) + Len(body)
               /\ SubSeq(task[t1].lines, 1, Len(block)) = block
               /\ block[1][1] = MarkReply
               /\ task[t2].requested = <<>>
               /\ task[t2].status = "returned"
               /\ Len(task[t2].lines) = Len(body)
               /\ body # <<>> => task[t2].lines[1] = <<MarkInContext>> \o body[1]
               /\ \A i \in 2..Len(body) : task[t2].lines[i] = body[i]

\* what holds of the two calls when the body of the reply has at least one line
RenderTwiceWithBody ==
    \A t1, t2 \in Tasks :
        (RenderedTwice(t1, t2) /\ format_record(task[t2].post.record) # <<>>)
        => /\ task[t2].requested = <<>>
           /\ task[t2].status = "returned"
           /\ task[t2].lines[1] = <<MarkInContext>> \o format_record(task[t2].post.record)[1]
           /\ task[t1].lines[1][1] = MarkReply

====
